---------------------------- MODULE Spec2Model ----------------------------
(***************************************************************************)
(* A model of src/a1.py: the document translation pipeline                 *)
(* (parse_docx_for_translation, translate_document_main_flow with its      *)
(* thread pool, create_interleaved_docx) and the text chunker              *)
(* (split_text_into_chunks).                                               *)
(*                                                                         *)
(* Text is a sequence of one-character strings.  " " is the whitespace     *)
(* character, "." the sentence terminator, the others are letters.         *)
(***************************************************************************)
EXTENDS Integers, Sequences, FiniteSets, TLC

(***************************************************************************)
(* Bounds of the model.                                                    *)
(***************************************************************************)
\* longest text handed to the chunker in ChunkSpec
MaxTextLen == 5
\* largest max_chars handed to the chunker in ChunkSpec
MaxBudget == 4
\* most blocks in a source document of Spec
MaxBlocks == 3
\* most blocks in a source document of FairSpec
MaxFairBlocks == 2
\* most translation units in a source document of Spec
MaxUnits == 3
\* most units in a source document of PoolSpec
MaxPoolUnits == 11
\* most cells in a row, most rows and largest nominal column count of a
\* source table of BuilderSpec
MaxRowCells == 2
MaxTableRows == 2
MaxNominalCols == 3
\* most cells in a row and largest column count of a table handed to the
\* assembler in AssemblerSpec
MaxPlacedCells == 3
MaxCols == 4
\* MAX_CHARS_PER_TRANSLATE_CHUNK (1800 in src/a1.py, line 53), scaled to the
\* length of the model's texts so that a block is cut into several chunks
MAX_CHARS_PER_TRANSLATE_CHUNK == 3

(***************************************************************************)
(* Constants of the program.                                               *)
(***************************************************************************)
\* ThreadPoolExecutor(max_workers=10)
max_workers == 10
\* chunk[:30] in the failure placeholder
PlaceholderChunkChars == 30
\* FALLBACK_CHINESE_FONT
FALLBACK_CHINESE_FONT == "SimSun"
\* the styles of a new Document() that the model's documents name
TargetStyles == {"TableGrid", "Normal"}

(***************************************************************************)
(* Python string helpers.                                                  *)
(***************************************************************************)
None == "None"

IsSpace(c) == c = " "

RECURSIVE lstrip(_)
lstrip(s) ==
  IF s = <<>> THEN <<>>
  ELSE IF IsSpace(Head(s)) THEN lstrip(Tail(s)) ELSE s

RECURSIVE rstrip(_)
rstrip(s) ==
  IF s = <<>> THEN <<>>
  ELSE IF IsSpace(s[Len(s)]) THEN rstrip(SubSeq(s, 1, Len(s) - 1)) ELSE s

\* str.strip()
strip(s) == lstrip(rstrip(s))

\* "not s.strip()"
IsBlank(s) == strip(s) = <<>>

\* s[i:j] with Python's 0-based, end-exclusive, clamped slice
Slice(s, i, j) ==
  SubSeq(s, i + 1, IF j > Len(s) THEN Len(s) ELSE j)

\* the strings of length at most n over alphabet A
Strings(A, n) == UNION { [1..k -> A] : k \in 0..n }

(***************************************************************************)
(* nltk.sent_tokenize, the sentence boundary detector (a library).  A      *)
(* sentence may end after a "." that is followed by whitespace and a next  *)
(* token; whether it does is the detector's decision (abbreviations and    *)
(* the like), so every subset of the candidate ends is a possible answer.  *)
(* A sentence runs from the previous break to the ".", the next one starts *)
(* at the next token, the last one ends where text.rstrip() ends, and an   *)
(* empty last sentence is not returned.  The call may also raise.          *)
(***************************************************************************)
SentenceEndCandidates(text) ==
  { i \in 1..Len(text) :
      /\ text[i] = "."
      /\ i < Len(text)
      /\ IsSpace(text[i + 1])
      /\ \E j \in (i + 2)..Len(text) : ~IsSpace(text[j]) }

\* first index after i holding a non-space character
NextTokenStart(text, i) ==
  CHOOSE j \in (i + 1)..Len(text) :
    /\ ~IsSpace(text[j])
    /\ \A k \in (i + 1)..(j - 1) : IsSpace(text[k])

RECURSIVE SentencesFrom(_, _, _)
SentencesFrom(text, breaks, last_break) ==
  LET later == { i \in breaks : i >= last_break } IN
  IF later = {}
  THEN LET last == SubSeq(text, last_break, Len(rstrip(text)))
       IN  IF last = <<>> THEN <<>> ELSE <<last>>
  ELSE LET i == CHOOSE x \in later : \A y \in later : x <= y
       IN  <<SubSeq(text, last_break, i)>>
             \o SentencesFrom(text, breaks, NextTokenStart(text, i))

\* what one call of nltk.sent_tokenize(text) can do
sent_tokenize(text) ==
  { [raised |-> TRUE, sentences |-> <<>>] } \cup
  { [raised |-> FALSE, sentences |-> SentencesFrom(text, b, 1)] :
      b \in SUBSET SentenceEndCandidates(text) }

(***************************************************************************)
(* split_text_into_chunks                                                  *)
(***************************************************************************)
ShortTextResultStripped(long_text) ==
  IF IsBlank(long_text) THEN <<>> ELSE <<strip(long_text)>>

\* line 79: the text fits the budget
ShortTextResult(long_text) ==
  IF IsBlank(long_text) THEN <<>> ELSE <<long_text>>

RECURSIVE CharSlices(_, _, _)
\* [s[i:i + max_chars] for i in range(start, len(s), max_chars)]
CharSlices(s, start, max_chars) ==
  IF start >= Len(s) THEN <<>>
  ELSE <<Slice(s, start, start + max_chars)>>
         \o CharSlices(s, start + max_chars, max_chars)

\* line 84: the fallback taken when the tokenizer raises
FallbackResult(long_text, max_chars) == CharSlices(long_text, 0, max_chars)

HardSplitKeepsSentence(sentence, max_chars) == <<sentence>>

HardSplitKeepsFirstPiece(sentence, max_chars) ==
  <<Slice(sentence, 0, max_chars)>>

\* line 92: an oversized sentence is cut into max_chars pieces
HardSplit(sentence, max_chars) == CharSlices(sentence, 0, max_chars)

\* line 87: the pending chunk is closed before a sentence that overflows it
ClosesChunk(current_chunk, sentence, max_chars) ==
  Len(current_chunk) + Len(sentence) + 1 > max_chars /\ current_chunk # <<>>

RECURSIVE PackSentences(_, _, _, _)
\* lines 85-95: the loop over the sentences, then the last pending chunk
PackSentences(sentences, chunks, current_chunk, max_chars) ==
  IF sentences = <<>>
  THEN IF current_chunk # <<>> THEN Append(chunks, strip(current_chunk))
       ELSE chunks
  ELSE LET sentence == Head(sentences)
           closes == ClosesChunk(current_chunk, sentence, max_chars)
           chunks1 == IF closes THEN Append(chunks, strip(current_chunk))
                      ELSE chunks
           current1 == IF closes THEN <<>> ELSE current_chunk
       IN  IF Len(sentence) > max_chars
           THEN PackSentences(Tail(sentences),
                  (IF current1 # <<>> THEN Append(chunks1, strip(current1))
                   ELSE chunks1) \o HardSplit(sentence, max_chars),
                  <<>>, max_chars)
           ELSE PackSentences(Tail(sentences), chunks1,
                  current1 \o sentence \o <<" ">>, max_chars)

\* line 96: [c for c in chunks if c.strip()]
DropBlank(chunks) == SelectSeq(chunks, LAMBDA c : ~IsBlank(c))

\* split_text_into_chunks(long_text, max_chars), tok being what the
\* tokenizer does when it is called
split_text_into_chunks(long_text, max_chars, tok) ==
  IF Len(long_text) <= max_chars THEN ShortTextResult(long_text)
  ELSE IF tok.raised THEN FallbackResult(long_text, max_chars)
  ELSE DropBlank(PackSentences(tok.sentences, <<>>, <<>>, max_chars))

\* the results split_text_into_chunks can return for a text
SplitResults(long_text, max_chars) ==
  { split_text_into_chunks(long_text, max_chars, tok) :
      tok \in sent_tokenize(long_text) }

(***************************************************************************)
(* The source document, as python-docx presents it.  A run holds text and  *)
(* possibly one drawing: "none"; "ok", whose relationship id resolves; or  *)
(* "missing", whose id is not in related_parts.  An optional value is a    *)
(* sequence of length 0 (None) or 1.                                       *)
(***************************************************************************)
NoValue == <<>>
Some(v) == <<v>>

SourceRun(text, image) == [text |-> text, image |-> image]

SourceParagraph(runs, style) ==
  [tag |-> "w:p", runs |-> runs, style |-> style, alignment |-> None]

\* gridSpan: 0 when the cell has no w:gridSpan; vMerge: "absent" when it has
\* no w:vMerge, "noval" for a w:vMerge without w:val
SourceCell(paragraphs, gridSpan, vMerge) ==
  [paragraphs |-> paragraphs, gridSpan |-> gridSpan, vMerge |-> vMerge]

SourceTable(rows, style, columns) ==
  [tag |-> "w:tbl", rows |-> rows, style |-> style, columns |-> columns]

RECURSIVE Concat(_)
\* "".join(parts)
Concat(parts) ==
  IF parts = <<>> THEN <<>> ELSE Head(parts) \o Concat(Tail(parts))

RECURSIVE JoinWith(_, _)
\* sep.join(parts)
JoinWith(sep, parts) ==
  IF parts = <<>> THEN <<>>
  ELSE IF Len(parts) = 1 THEN parts[1]
  ELSE parts[1] \o sep \o JoinWith(sep, Tail(parts))

(***************************************************************************)
(* _parse_single_paragraph_content and parse_docx_for_translation          *)
(***************************************************************************)
\* lines 361-391: what one run adds to content_items
RunContentItems(run) ==
  (IF run.image = "ok" THEN <<[type |-> "image", text |-> <<>>]>> ELSE <<>>)
    \o (IF run.text # <<>> THEN <<[type |-> "text", text |-> run.text]>>
        ELSE <<>>)

RECURSIVE ContentItemsOf(_)
ContentItemsOf(runs) ==
  IF runs = <<>> THEN <<>>
  ELSE RunContentItems(Head(runs)) \o ContentItemsOf(Tail(runs))

\* _parse_single_paragraph_content
parse_single_paragraph_content(p_obj) ==
  [content_items |-> ContentItemsOf(p_obj.runs),
   text_to_translate |->
     Concat([k \in 1..Len(p_obj.runs) |-> p_obj.runs[k].text]),
   paragraph_style_name |-> p_obj.style,
   paragraph_alignment |-> p_obj.alignment]

KeepsEveryParagraph(parsed_para) == TRUE

\* lines 408 and 425: the paragraph has content items or non-blank text
KeepsParagraph(parsed_para) ==
  parsed_para.content_items # <<>> \/ ~IsBlank(parsed_para.text_to_translate)

\* cell_obj.text: the cell's paragraph texts joined by newlines; a newline
\* is whitespace, written " " here
CellObjText(cell_obj) ==
  JoinWith(<<" ">>,
    [k \in 1..Len(cell_obj.paragraphs) |->
       Concat([j \in 1..Len(cell_obj.paragraphs[k].runs) |->
                 cell_obj.paragraphs[k].runs[j].text])])

RECURSIVE CellParagraphsData(_, _, _)
\* lines 423-429: the loop over a cell's paragraphs
CellParagraphsData(cell_obj, k, acc) ==
  IF k > Len(cell_obj.paragraphs) THEN acc
  ELSE LET parsed == parse_single_paragraph_content(cell_obj.paragraphs[k])
       IN  CellParagraphsData(cell_obj, k + 1,
             IF KeepsParagraph(parsed) THEN Append(acc, parsed)
             ELSE IF acc = <<>> /\ IsBlank(CellObjText(cell_obj))
                  THEN Append(acc, parsed)
             ELSE acc)

\* lines 422-445: cell_data of one source cell
ParseCell(cell_obj) ==
  LET paragraphs_data == CellParagraphsData(cell_obj, 1, <<>>)
      kept == SelectSeq(paragraphs_data, KeepsParagraph)
  IN  [paragraphs_data |-> paragraphs_data,
       full_cell_text_to_translate |->
         Concat([k \in 1..Len(kept) |-> kept[k].text_to_translate]),
       translation |-> NoValue,
       grid_span |-> IF cell_obj.gridSpan = 0 THEN 1 ELSE cell_obj.gridSpan,
       v_merge |-> IF cell_obj.vMerge = "absent" THEN None
                   ELSE IF cell_obj.vMerge = "noval" THEN "continue"
                   ELSE cell_obj.vMerge]

RECURSIVE SumSpans(_)
\* current_col_span_in_row after a row's cells
SumSpans(cells) ==
  IF cells = <<>> THEN 0 ELSE Head(cells).grid_span + SumSpans(Tail(cells))

RECURSIVE MaxOver(_)
MaxOver(ns) ==
  IF ns = <<>> THEN 0
  ELSE LET m == MaxOver(Tail(ns)) IN IF Head(ns) > m THEN Head(ns) ELSE m

ParseTableNominal(table_obj) ==
  [type |-> "table",
   rows |-> [r \in 1..Len(table_obj.rows) |->
               [cells |-> [c \in 1..Len(table_obj.rows[r]) |->
                             ParseCell(table_obj.rows[r][c])]]],
   style_name |-> table_obj.style,
   max_cols |-> table_obj.columns]

\* lines 411-452: table_data of one source table
ParseTable(table_obj) ==
  LET rows == [r \in 1..Len(table_obj.rows) |->
                 [cells |-> [c \in 1..Len(table_obj.rows[r]) |->
                               ParseCell(table_obj.rows[r][c])]]]
      max_cols_actual == MaxOver([r \in 1..Len(rows) |-> SumSpans(rows[r].cells)])
  IN  [type |-> "table", rows |-> rows, style_name |-> table_obj.style,
       max_cols |-> IF max_cols_actual > 0 THEN max_cols_actual
                    ELSE table_obj.columns]

\* lines 405-407: current_paragraph_data of a body paragraph
ParseBodyParagraph(p_obj) ==
  LET parsed == parse_single_paragraph_content(p_obj)
  IN  [type |-> "paragraph",
       content_items |-> parsed.content_items,
       text_to_translate |-> parsed.text_to_translate,
       paragraph_style_name |-> parsed.paragraph_style_name,
       paragraph_alignment |-> parsed.paragraph_alignment,
       translation |-> NoValue]

RECURSIVE parse_docx_for_translation(_)
parse_docx_for_translation(body) ==
  IF body = <<>> THEN <<>>
  ELSE LET block_element == Head(body)
           rest == parse_docx_for_translation(Tail(body))
       IN  IF block_element.tag = "w:p"
           THEN LET current_paragraph_data == ParseBodyParagraph(block_element)
                IN  IF KeepsParagraph(current_paragraph_data)
                    THEN <<current_paragraph_data>> \o rest
                    ELSE rest
           ELSE <<ParseTable(block_element)>> \o rest

(***************************************************************************)
(* translate_text_qianwen.  Marker strings are written with their fixed    *)
(* parts as single tokens: "[Translation" is the prefix every error        *)
(* return of translate_text_qianwen starts with.                           *)
(***************************************************************************)
\* the translation the backend gives a letter
Zh(c) == IF c = "a" THEN "A" ELSE IF c = "b" THEN "B" ELSE c

ZhText(text) == [k \in 1..Len(text) |-> Zh(text[k])]

\* What dashscope.Generation.call can do with a prompt: answer OK with a
\* text (the translation, possibly padded with whitespace; nothing; only
\* whitespace; or a text that itself starts with "[Translation"), answer
\* with another status, or raise.
BackendResponses(text) ==
  { [kind |-> "ok", text |-> ZhText(strip(text))],
    [kind |-> "ok", text |-> <<" ">> \o ZhText(strip(text)) \o <<" ">>],
    [kind |-> "ok", text |-> <<>>],
    [kind |-> "ok", text |-> <<" ">>],
    [kind |-> "ok", text |-> <<"[Translation">> \o ZhText(strip(text))],
    [kind |-> "status", text |-> <<>>],
    [kind |-> "raise", text |-> <<>>] }

\* the backend is not called
NoResponse == [kind |-> "none", text |-> <<>>]

\* lines 59-74, the key being dashscope.api_key and response what the
\* backend does if it is called
translate_text_qianwen(text_to_translate, key_ok, response) ==
  IF IsBlank(text_to_translate) THEN <<>>
  ELSE IF ~key_ok THEN <<"[Translation", " API Key Error]">>
  ELSE IF response.kind = "ok"
       THEN IF response.text # <<>> THEN strip(response.text)
            ELSE <<"[Translation", " Error: Empty Response]">>
  ELSE IF response.kind = "status"
       THEN <<"[Translation", " API Error: ", "message", "]">>
  ELSE <<"[Translation", " Exception: ", "e", "]">>

\* whether translate_text_qianwen reaches dashscope.Generation.call
CallsBackend(text_to_translate, key_ok) ==
  ~IsBlank(text_to_translate) /\ key_ok

(***************************************************************************)
(* process_and_translate_block                                             *)
(***************************************************************************)
\* line 657: f"[翻译失败: {chunk[:30]}...]"
FailurePlaceholder(chunk) ==
  <<"[FAILED: ">> \o Slice(chunk, 0, PlaceholderChunkChars) \o <<"...]">>

\* line 653
IsUsable(translated_chunk) ==
  translated_chunk # <<>> /\ Head(translated_chunk) # "[Translation"

ChunkOutputDropsFailure(chunk, translated_chunk) ==
  IF IsUsable(translated_chunk) THEN translated_chunk ELSE <<>>

\* lines 653-657: what one chunk adds to translated_chunks
ChunkOutput(chunk, translated_chunk) ==
  IF IsUsable(translated_chunk) THEN translated_chunk
  ELSE FailurePlaceholder(chunk)

\* line 658: " ".join(filter(None, translated_chunks)).strip()
JoinChunks(translated_chunks) ==
  strip(JoinWith(<<" ">>, SelectSeq(translated_chunks, LAMBDA t : t # <<>>)))

\* the outputs one chunk can add
ChunkOutputs(chunk, key_ok) ==
  { ChunkOutput(chunk, translate_text_qianwen(chunk, key_ok, r)) :
      r \in BackendResponses(chunk) }

RECURSIVE OutputSeqs(_, _)
\* the sequences translated_chunks can be for a sequence of chunks
OutputSeqs(chs, key_ok) ==
  IF chs = <<>> THEN { <<>> }
  ELSE { <<o>> \o rest : o \in ChunkOutputs(Head(chs), key_ok),
                         rest \in OutputSeqs(Tail(chs), key_ok) }

\* everything process_and_translate_block(text_block) can return
BlockResults(text_block, key_ok) ==
  { JoinChunks(outs) :
      outs \in UNION { OutputSeqs(chs, key_ok) :
                 chs \in SplitResults(text_block, MAX_CHARS_PER_TRANSLATE_CHUNK) } }

(***************************************************************************)
(* Translation slots: the 'target' of a task is the dict of a body         *)
(* paragraph, <<b>>, or of a table cell, <<b, r, c>>.                      *)
(***************************************************************************)
SlotOf(structure, target) ==
  IF Len(target) = 1 THEN structure[target[1]].translation
  ELSE structure[target[1]].rows[target[2]].cells[target[3]].translation

SetSlotOverwritesText(structure, target, value) ==
  IF Len(target) = 1
  THEN [structure EXCEPT ![target[1]].translation = value,
                         ![target[1]].text_to_translate = value[1]]
  ELSE [structure EXCEPT
          ![target[1]].rows[target[2]].cells[target[3]].translation = value,
          ![target[1]].rows[target[2]].cells[target[3]]
             .full_cell_text_to_translate = value[1]]

\* task['target']['translation'] = value
SetSlot(structure, target, value) ==
  IF Len(target) = 1
  THEN [structure EXCEPT ![target[1]].translation = value]
  ELSE [structure EXCEPT
          ![target[1]].rows[target[2]].cells[target[3]].translation = value]

\* every dict of the structure that has a 'translation' key
AllSlots(structure) ==
  { <<b>> : b \in { x \in 1..Len(structure) : structure[x].type = "paragraph" } }
  \cup
  UNION { UNION { { <<b, r, c>> : c \in 1..Len(structure[b].rows[r].cells) } :
                    r \in 1..Len(structure[b].rows) } :
            b \in { x \in 1..Len(structure) : structure[x].type = "table" } }

\* the text a slot's unit would carry
SlotText(structure, target) ==
  IF Len(target) = 1 THEN structure[target[1]].text_to_translate
  ELSE structure[target[1]].rows[target[2]].cells[target[3]]
         .full_cell_text_to_translate

(***************************************************************************)
(* Task collection, lines 632-640                                          *)
(***************************************************************************)
RECURSIVE RowTasks(_, _, _, _)
RowTasks(cells, b, r, c) ==
  IF c > Len(cells) THEN <<>>
  ELSE (IF ~IsBlank(cells[c].full_cell_text_to_translate)
        THEN <<[text |-> cells[c].full_cell_text_to_translate,
                target |-> <<b, r, c>>]>>
        ELSE <<>>) \o RowTasks(cells, b, r, c + 1)

RECURSIVE TableTasks(_, _, _)
TableTasks(rows, b, r) ==
  IF r > Len(rows) THEN <<>>
  ELSE RowTasks(rows[r].cells, b, r, 1) \o TableTasks(rows, b, r + 1)

ItemTasksQueuesBlank(item, b) ==
  IF item.type = "paragraph"
  THEN <<[text |-> item.text_to_translate, target |-> <<b>>]>>
  ELSE TableTasks(item.rows, b, 1)

\* lines 634-640: the tasks one block adds
ItemTasks(item, b) ==
  IF item.type = "paragraph"
  THEN IF ~IsBlank(item.text_to_translate)
       THEN <<[text |-> item.text_to_translate, target |-> <<b>>]>>
       ELSE <<>>
  ELSE TableTasks(item.rows, b, 1)

RECURSIVE CollectTasks(_, _)
CollectTasks(structure, b) ==
  IF b > Len(structure) THEN <<>>
  ELSE ItemTasks(structure[b], b) \o CollectTasks(structure, b + 1)

(***************************************************************************)
(* create_interleaved_docx: the body of the new document, a sequence of    *)
(* paragraphs and tables.                                                  *)
(***************************************************************************)
\* lines 488-503 and 561-573: the runs added for a paragraph's content
\* items; a picture that add_picture refuses leaves its empty run
EmitRuns(content_items, pictures_ok) ==
  [k \in 1..Len(content_items) |->
     IF content_items[k].type = "text"
     THEN [type |-> "text", text |-> content_items[k].text, font |-> None]
     ELSE [type |-> IF pictures_ok THEN "picture" ELSE "empty",
           text |-> <<>>, font |-> None]]

\* lines 513-519 and 577-584: the run of a translated paragraph
ZhRun(translated_text) ==
  [type |-> "text", text |-> translated_text, font |-> FALLBACK_CHINESE_FONT]

\* "name if name and name in new_doc.styles else None"
StyleInTarget(name) == IF name \in TargetStyles THEN name ELSE None

\* "translated_text and translated_text.strip()"
HasAnyTranslation(translation) == translation # NoValue

HasTranslation(translation) ==
  translation # NoValue /\ ~IsBlank(translation[1])

\* lines 480-519: the paragraphs emitted for a paragraph block
EmitParagraph(data_item, pictures_ok) ==
  <<[kind |-> "paragraph", role |-> "original",
     style |-> StyleInTarget(data_item.paragraph_style_name),
     alignment |-> data_item.paragraph_alignment,
     runs |-> EmitRuns(data_item.content_items, pictures_ok)]>>
  \o (IF HasTranslation(data_item.translation)
      THEN <<[kind |-> "paragraph", role |-> "translated",
              style |-> StyleInTarget(data_item.paragraph_style_name),
              alignment |-> data_item.paragraph_alignment,
              runs |-> <<ZhRun(data_item.translation[1])>>]>>
      ELSE <<>>)

\* lines 550-584: the paragraphs put into the target cell of one source cell
EmitCellParagraphs(cell_data, pictures_ok) ==
  [k \in 1..Len(cell_data.paragraphs_data) |->
     [kind |-> "paragraph", role |-> "original",
      style |-> StyleInTarget(
                   cell_data.paragraphs_data[k].paragraph_style_name),
      alignment |-> cell_data.paragraphs_data[k].paragraph_alignment,
      runs |-> EmitRuns(cell_data.paragraphs_data[k].content_items,
                        pictures_ok)]]
  \o (IF HasTranslation(cell_data.translation)
      THEN <<[kind |-> "paragraph", role |-> "translated",
              style |-> None, alignment |-> None,
              runs |-> <<ZhRun(cell_data.translation[1])>>]>>
      ELSE <<>>)

RECURSIVE PlaceRowByIndex(_, _, _, _, _, _)
PlaceRowByIndex(cells, r_idx, c_idx_orig, current_col_idx, num_cols, pictures_ok) ==
  IF c_idx_orig > Len(cells) \/ current_col_idx >= num_cols THEN <<>>
  ELSE LET cell_data == cells[c_idx_orig]
           end_col_idx == current_col_idx + cell_data.grid_span - 1
       IN  <<[row |-> r_idx, col |-> current_col_idx, source |-> c_idx_orig,
              paragraphs |-> EmitCellParagraphs(cell_data, pictures_ok),
              merged_to |-> IF cell_data.grid_span > 1 /\ end_col_idx < num_cols
                            THEN end_col_idx ELSE current_col_idx]>>
           \o PlaceRowByIndex(cells, r_idx, c_idx_orig + 1,
                              current_col_idx + 1, num_cols, pictures_ok)

RECURSIVE PlaceRowWithoutBreak(_, _, _, _, _, _)
PlaceRowWithoutBreak(cells, r_idx, c_idx_orig, current_col_idx, num_cols, pictures_ok) ==
  IF c_idx_orig > Len(cells) THEN <<>>
  ELSE LET cell_data == cells[c_idx_orig]
           end_col_idx == current_col_idx + cell_data.grid_span - 1
       IN  <<[row |-> r_idx, col |-> current_col_idx, source |-> c_idx_orig,
              paragraphs |-> EmitCellParagraphs(cell_data, pictures_ok),
              merged_to |-> IF cell_data.grid_span > 1 /\ end_col_idx < num_cols
                            THEN end_col_idx ELSE current_col_idx]>>
           \o PlaceRowWithoutBreak(cells, r_idx, c_idx_orig + 1,
                                   current_col_idx + cell_data.grid_span,
                                   num_cols, pictures_ok)

RECURSIVE PlaceRow(_, _, _, _, _, _)
\* lines 541-594: the content pass over one row; each placed cell records
\* its source cell, its target column and the last column it was merged to
\* (its own column when no merge was made)
PlaceRow(cells, r_idx, c_idx_orig, current_col_idx, num_cols, pictures_ok) ==
  IF c_idx_orig > Len(cells) \/ current_col_idx >= num_cols THEN <<>>
  ELSE LET cell_data == cells[c_idx_orig]
           end_col_idx == current_col_idx + cell_data.grid_span - 1
       IN  <<[row |-> r_idx, col |-> current_col_idx, source |-> c_idx_orig,
              paragraphs |-> EmitCellParagraphs(cell_data, pictures_ok),
              merged_to |-> IF cell_data.grid_span > 1 /\ end_col_idx < num_cols
                            THEN end_col_idx ELSE current_col_idx]>>
           \o PlaceRow(cells, r_idx, c_idx_orig + 1,
                       current_col_idx + cell_data.grid_span, num_cols,
                       pictures_ok)

RECURSIVE VMergeRowByIndex(_, _, _, _, _)
VMergeRowByIndex(cells, r_idx, c_idx_orig, current_col_idx, num_cols) ==
  IF c_idx_orig > Len(cells) THEN <<>>
  ELSE LET cell_data == cells[c_idx_orig]
       IN  (IF cell_data.v_merge # None /\ current_col_idx < num_cols
            THEN <<[row |-> r_idx, col |-> current_col_idx,
                    source |-> c_idx_orig,
                    val |-> IF cell_data.v_merge = "restart" THEN "restart"
                            ELSE None]>>
            ELSE <<>>)
           \o VMergeRowByIndex(cells, r_idx, c_idx_orig + 1,
                               current_col_idx + 1, num_cols)

RECURSIVE VMergeRow(_, _, _, _, _)
\* lines 597-611: the vertical-merge pass over one row
VMergeRow(cells, r_idx, c_idx_orig, current_col_idx, num_cols) ==
  IF c_idx_orig > Len(cells) THEN <<>>
  ELSE LET cell_data == cells[c_idx_orig]
       IN  (IF cell_data.v_merge # None /\ current_col_idx < num_cols
            THEN <<[row |-> r_idx, col |-> current_col_idx,
                    source |-> c_idx_orig,
                    val |-> IF cell_data.v_merge = "restart" THEN "restart"
                            ELSE None]>>
            ELSE <<>>)
           \o VMergeRow(cells, r_idx, c_idx_orig + 1,
                        current_col_idx + cell_data.grid_span, num_cols)

\* lines 521-611: the table emitted for a table block, none when it has no
\* rows or no columns.  Rows and columns are numbered from 0 as in the code.
EmitTable(data_item, pictures_ok) ==
  LET num_rows == Len(data_item.rows)
      num_cols == data_item.max_cols
  IN  IF num_rows = 0 \/ num_cols = 0 THEN <<>>
      ELSE <<[kind |-> "table", rows |-> num_rows, cols |-> num_cols,
              style |-> IF data_item.style_name \in TargetStyles
                        THEN data_item.style_name ELSE "TableGrid",
              placed |-> Concat([r \in 1..num_rows |->
                           PlaceRow(data_item.rows[r].cells, r - 1, 1, 0,
                                    num_cols, pictures_ok)]),
              vmerge |-> Concat([r \in 1..num_rows |->
                           VMergeRow(data_item.rows[r].cells, r - 1, 1, 0,
                                     num_cols)])]>>

RECURSIVE create_interleaved_docx(_, _)
\* lines 477-611: the body built from processed_data
create_interleaved_docx(processed_data, pictures_ok) ==
  IF processed_data = <<>> THEN <<>>
  ELSE (IF Head(processed_data).type = "paragraph"
        THEN EmitParagraph(Head(processed_data), pictures_ok)
        ELSE EmitTable(Head(processed_data), pictures_ok))
       \o create_interleaved_docx(Tail(processed_data), pictures_ok)

(***************************************************************************)
(* State.  The first group is translate_document_main_flow and its thread  *)
(* pool; the second is a call of split_text_into_chunks on its own.        *)
(***************************************************************************)
VARIABLES
  pc,                 \* where the main thread is
  source_doc,         \* the body of the source document
  api_key_ok,         \* dashscope.api_key is set and starts with "sk-"
  parsed_structure,
  tasks_to_translate,
  units,              \* per task: its future and the locals of its call
  work_queue,         \* the executor's queue of submitted task indices
  num_threads,        \* worker threads of the executor
  idle_semaphore,     \* the executor's count of workers that went idle
  translated_texts,
  written,            \* iterations done by the write-back loop
  new_doc,            \* the body built by create_interleaved_docx
  saved,              \* new_doc.save returned
  ret,                \* what translate_document_main_flow returned, as text
  api_calls           \* calls of dashscope.Generation.call made so far

VARIABLES c_pc, long_text, max_chars, tokenized, chunks

pvars == <<pc, source_doc, api_key_ok, parsed_structure, tasks_to_translate,
           units, work_queue, num_threads, idle_semaphore, translated_texts,
           written, new_doc, saved, ret, api_calls>>

cvars == <<c_pc, long_text, max_chars, tokenized, chunks>>

vars == <<pvars, cvars>>

NotTokenized == [raised |-> FALSE, sentences |-> <<>>]

ChunkerIdle ==
  /\ c_pc = "idle"
  /\ long_text = <<>>
  /\ max_chars = MAX_CHARS_PER_TRANSLATE_CHUNK
  /\ tokenized = NotTokenized
  /\ chunks = <<>>

PipelineIdle ==
  /\ pc = "idle"
  /\ source_doc = <<>>
  /\ api_key_ok = TRUE
  /\ parsed_structure = <<>>
  /\ tasks_to_translate = <<>>
  /\ units = <<>>
  /\ work_queue = <<>>
  /\ num_threads = 0
  /\ idle_semaphore = 0
  /\ translated_texts = <<>>
  /\ written = 0
  /\ new_doc = <<>>
  /\ saved = FALSE
  /\ ret = None
  /\ api_calls = 0

(***************************************************************************)
(* The source documents of the model.                                      *)
(***************************************************************************)
TextRunOf(text) == SourceRun(text, "none")

P_Empty == SourceParagraph(<<>>, "Normal")
P_Sentences ==
  SourceParagraph(<<TextRunOf(<<"a", ".">>), TextRunOf(<<" ", "b", ".">>)>>,
                  "Normal")
P_Word == SourceParagraph(<<TextRunOf(<<"b">>)>>, "Heading")
P_Image == SourceParagraph(<<SourceRun(<<>>, "ok")>>, "Normal")
P_Space ==
  SourceParagraph(<<TextRunOf(<<" ">>), SourceRun(<<>>, "missing")>>, "Normal")

T_Merged ==
  SourceTable(
    <<<<SourceCell(<<SourceParagraph(<<TextRunOf(<<"a">>)>>, "Normal")>>,
                   2, "absent"),
        SourceCell(<<P_Empty>>, 0, "restart")>>,
      <<SourceCell(<<P_Empty, SourceParagraph(<<TextRunOf(<<"a", "b">>)>>,
                                              "Normal")>>, 0, "absent"),
        SourceCell(<<P_Image>>, 0, "absent"),
        SourceCell(<<>>, 0, "noval")>> >>,
    "LightList", 3)

SourceBlocks == {P_Empty, P_Sentences, P_Word, P_Image, P_Space, T_Merged}

\* the documents of at most MaxBlocks blocks and at most MaxUnits units
SourceDocs ==
  { d \in UNION { [1..n -> SourceBlocks] : n \in 0..MaxBlocks } :
      Len(CollectTasks(parse_docx_for_translation(d), 1)) <= MaxUnits }

\* documents of more units than the pool has workers
ManyUnitDocs ==
  { [k \in 1..n |-> P_Word] : n \in (max_workers + 1)..MaxPoolUnits }

(***************************************************************************)
(* translate_document_main_flow                                            *)
(***************************************************************************)
InitWith(docs, keys) ==
  /\ pc = "open"
  /\ source_doc \in docs
  /\ api_key_ok \in keys
  /\ parsed_structure = <<>>
  /\ tasks_to_translate = <<>>
  /\ units = <<>>
  /\ work_queue = <<>>
  /\ num_threads = 0
  /\ idle_semaphore = 0
  /\ translated_texts = <<>>
  /\ written = 0
  /\ new_doc = <<>>
  /\ saved = FALSE
  /\ ret = None
  /\ api_calls = 0
  /\ ChunkerIdle

Init == InitWith(SourceDocs, BOOLEAN)

\* a task's future and the locals of its process_and_translate_block call;
\* warned holds the chunks for which line 656 printed its warning
NewUnit ==
  [state |-> "new", chunks |-> <<>>, translated_chunks |-> <<>>,
   warned |-> {}, result |-> <<>>]

Running == { i \in 1..Len(units) : units[i].state = "running" }

\* lines 620-623: Document(input_docx_path) opens or raises
Open ==
  /\ pc = "open"
  /\ \E opened \in BOOLEAN :
       IF opened THEN pc' = "parse" /\ ret' = ret
       ELSE pc' = "open_failed" /\ ret' = "False"
  /\ UNCHANGED <<source_doc, api_key_ok, parsed_structure, tasks_to_translate,
                 units, work_queue, num_threads, idle_semaphore,
                 translated_texts, written, new_doc, saved, api_calls, cvars>>

\* lines 625-626
Parse ==
  /\ pc = "parse"
  /\ parsed_structure' = parse_docx_for_translation(source_doc)
  /\ IF parsed_structure' = <<>> THEN pc' = "empty" /\ ret' = "False"
     ELSE pc' = "collect" /\ ret' = ret
  /\ UNCHANGED <<source_doc, api_key_ok, tasks_to_translate, units, work_queue,
                 num_threads, idle_semaphore, translated_texts, written,
                 new_doc, saved, api_calls, cvars>>

CollectReturnsWithoutTasks ==
  /\ pc = "collect"
  /\ tasks_to_translate' = CollectTasks(parsed_structure, 1)
  /\ units' = [i \in 1..Len(tasks_to_translate') |-> NewUnit]
  /\ pc' = IF tasks_to_translate' = <<>> THEN "done" ELSE "submit"
  /\ ret' = IF tasks_to_translate' = <<>> THEN "True" ELSE ret
  /\ UNCHANGED <<source_doc, api_key_ok, parsed_structure, work_queue,
                 num_threads, idle_semaphore, translated_texts, written,
                 new_doc, saved, api_calls, cvars>>

\* lines 632-645: the tasks are collected; with none, the document is
\* assembled at once (line 644)
Collect ==
  /\ pc = "collect"
  /\ tasks_to_translate' = CollectTasks(parsed_structure, 1)
  /\ units' = [i \in 1..Len(tasks_to_translate') |-> NewUnit]
  /\ pc' = IF tasks_to_translate' = <<>> THEN "assemble" ELSE "submit"
  /\ UNCHANGED <<source_doc, api_key_ok, parsed_structure, work_queue,
                 num_threads, idle_semaphore, translated_texts, written,
                 new_doc, saved, ret, api_calls, cvars>>

SubmitUnbounded ==
  /\ pc = "submit"
  /\ LET i == Len(SelectSeq(units, LAMBDA u : u.state # "new")) + 1 IN
       /\ units' = [units EXCEPT ![i].state = "queued"]
       /\ work_queue' = Append(work_queue, i)
       /\ pc' = IF i = Len(units) THEN "gather" ELSE "submit"
  /\ idle_semaphore' = idle_semaphore
  /\ num_threads' = num_threads + 1
  /\ UNCHANGED <<source_doc, api_key_ok, parsed_structure, tasks_to_translate,
                 translated_texts, written, new_doc, saved, ret, api_calls,
                 cvars>>

\* line 666: executor.map submits the next text; the executor queues it and
\* starts a worker thread unless a worker is idle or max_workers exist
Submit ==
  /\ pc = "submit"
  /\ LET i == Len(SelectSeq(units, LAMBDA u : u.state # "new")) + 1 IN
       /\ units' = [units EXCEPT ![i].state = "queued"]
       /\ work_queue' = Append(work_queue, i)
       /\ pc' = IF i = Len(units) THEN "gather" ELSE "submit"
  /\ IF idle_semaphore > 0
     THEN idle_semaphore' = idle_semaphore - 1 /\ num_threads' = num_threads
     ELSE /\ idle_semaphore' = idle_semaphore
          /\ num_threads' = IF num_threads < max_workers THEN num_threads + 1
                            ELSE num_threads
  /\ UNCHANGED <<source_doc, api_key_ok, parsed_structure, tasks_to_translate,
                 translated_texts, written, new_doc, saved, ret, api_calls,
                 cvars>>

\* a free worker takes the head of the queue and enters
\* process_and_translate_block: line 649 cuts the text into chunks
StartUnit ==
  /\ work_queue # <<>>
  /\ Cardinality(Running) < num_threads
  /\ LET i == Head(work_queue) IN
       \E chs \in SplitResults(tasks_to_translate[i].text,
                               MAX_CHARS_PER_TRANSLATE_CHUNK) :
         units' = [units EXCEPT ![i] =
                     [NewUnit EXCEPT
                        !.state = IF chs = <<>> THEN "finished" ELSE "running",
                        !.chunks = chs]]
  /\ work_queue' = Tail(work_queue)
  /\ UNCHANGED <<pc, source_doc, api_key_ok, parsed_structure,
                 tasks_to_translate, num_threads, idle_semaphore,
                 translated_texts, written, new_doc, saved, ret, api_calls,
                 cvars>>

TranslateChunkAborts(i) ==
  /\ units[i].state = "running"
  /\ LET chunk == units[i].chunks[Len(units[i].translated_chunks) + 1] IN
       /\ \E response \in (IF CallsBackend(chunk, api_key_ok)
                           THEN BackendResponses(chunk)
                           ELSE {NoResponse}) :
            LET translated_chunk ==
                  translate_text_qianwen(chunk, api_key_ok, response)
                outs == Append(units[i].translated_chunks,
                               ChunkOutput(chunk, translated_chunk))
                last == Len(outs) = Len(units[i].chunks)
            IN  units' = [units EXCEPT ![i] =
                  IF IsUsable(translated_chunk)
                  THEN [@ EXCEPT
                          !.translated_chunks = outs,
                          !.state = IF last THEN "finished" ELSE "running",
                          !.result = IF last THEN JoinChunks(outs) ELSE <<>>]
                  ELSE [@ EXCEPT !.state = "raised"]]
       /\ api_calls' = IF CallsBackend(chunk, api_key_ok) THEN api_calls + 1
                       ELSE api_calls
       /\ idle_semaphore' = idle_semaphore
  /\ UNCHANGED <<pc, source_doc, api_key_ok, parsed_structure,
                 tasks_to_translate, work_queue, num_threads,
                 translated_texts, written, new_doc, saved, ret, cvars>>

\* lines 651-658: a worker translates its next chunk; after the last one the
\* call returns and the future holds the joined result
TranslateChunk(i) ==
  /\ units[i].state = "running"
  /\ LET chunk == units[i].chunks[Len(units[i].translated_chunks) + 1] IN
       /\ \E response \in (IF CallsBackend(chunk, api_key_ok)
                           THEN BackendResponses(chunk)
                           ELSE {NoResponse}) :
            LET translated_chunk ==
                  translate_text_qianwen(chunk, api_key_ok, response)
                outs == Append(units[i].translated_chunks,
                               ChunkOutput(chunk, translated_chunk))
                last == Len(outs) = Len(units[i].chunks)
            IN  units' = [units EXCEPT ![i] =
                  [@ EXCEPT
                     !.translated_chunks = outs,
                     !.warned = IF IsUsable(translated_chunk) THEN @
                                ELSE @ \cup {Len(outs)},
                     !.state = IF last THEN "finished" ELSE "running",
                     !.result = IF last THEN JoinChunks(outs) ELSE <<>>]]
       /\ api_calls' = IF CallsBackend(chunk, api_key_ok) THEN api_calls + 1
                       ELSE api_calls
       /\ idle_semaphore' =
            IF Len(units[i].translated_chunks) + 1 = Len(units[i].chunks)
            THEN idle_semaphore + 1 ELSE idle_semaphore
  /\ UNCHANGED <<pc, source_doc, api_key_ok, parsed_structure,
                 tasks_to_translate, work_queue, num_threads,
                 translated_texts, written, new_doc, saved, ret, cvars>>

GatherAnyFinished ==
  /\ pc = "gather"
  /\ \E j \in 1..Len(units) :
       /\ units[j].state = "finished"
       /\ translated_texts' = Append(translated_texts, units[j].result)
  /\ pc' = IF Len(translated_texts) + 1 = Len(units) THEN "writeback"
           ELSE "gather"
  /\ UNCHANGED <<source_doc, api_key_ok, parsed_structure, tasks_to_translate,
                 units, work_queue, num_threads, idle_semaphore, written,
                 new_doc, saved, ret, api_calls, cvars>>

GatherWithoutWaiting ==
  /\ pc = "gather"
  /\ LET g == Len(translated_texts) + 1 IN
       /\ translated_texts' = Append(translated_texts, units[g].result)
       /\ pc' = IF g = Len(units) THEN "writeback" ELSE "gather"
  /\ UNCHANGED <<source_doc, api_key_ok, parsed_structure, tasks_to_translate,
                 units, work_queue, num_threads, idle_semaphore, written,
                 new_doc, saved, ret, api_calls, cvars>>

GatherLatestFinished ==
  /\ pc = "gather"
  /\ LET finished == { j \in 1..Len(units) : units[j].state = "finished" }
         j == CHOOSE x \in finished : \A y \in finished : y <= x
     IN  /\ Cardinality(finished) > Len(translated_texts)
         /\ translated_texts' = Append(translated_texts, units[j].result)
  /\ pc' = IF Len(translated_texts) + 1 = Len(units) THEN "writeback"
           ELSE "gather"
  /\ UNCHANGED <<source_doc, api_key_ok, parsed_structure, tasks_to_translate,
                 units, work_queue, num_threads, idle_semaphore, written,
                 new_doc, saved, ret, api_calls, cvars>>

\* line 667: list() takes the next result of executor.map, in task order;
\* after the last one the with block ends (every worker has finished)
Gather ==
  /\ pc = "gather"
  /\ LET g == Len(translated_texts) + 1 IN
       /\ units[g].state = "finished"
       /\ translated_texts' = Append(translated_texts, units[g].result)
       /\ pc' = IF g = Len(units) THEN "writeback" ELSE "gather"
  /\ UNCHANGED <<source_doc, api_key_ok, parsed_structure, tasks_to_translate,
                 units, work_queue, num_threads, idle_semaphore, written,
                 new_doc, saved, ret, api_calls, cvars>>

\* lines 670-671: one iteration of the write-back loop
WriteBack ==
  /\ pc = "writeback"
  /\ LET i == written + 1 IN
       /\ parsed_structure' =
            SetSlot(parsed_structure, tasks_to_translate[i].target,
                    Some(translated_texts[i]))
       /\ written' = i
       /\ pc' = IF i = Len(tasks_to_translate) THEN "assemble" ELSE "writeback"
  /\ UNCHANGED <<source_doc, api_key_ok, tasks_to_translate, units, work_queue,
                 num_threads, idle_semaphore, translated_texts, new_doc,
                 saved, ret, api_calls, cvars>>

Reverse(seq) == [k \in 1..Len(seq) |-> seq[Len(seq) + 1 - k]]

AssembleReversed ==
  /\ pc = "assemble"
  /\ \E pictures_ok \in BOOLEAN :
       new_doc' = create_interleaved_docx(Reverse(parsed_structure),
                                          pictures_ok)
  /\ \E save_ok \in BOOLEAN :
       IF save_ok THEN saved' = TRUE /\ ret' = "True" /\ pc' = "done"
       ELSE saved' = FALSE /\ ret' = ret /\ pc' = "raised"
  /\ UNCHANGED <<source_doc, api_key_ok, parsed_structure, tasks_to_translate,
                 units, work_queue, num_threads, idle_semaphore,
                 translated_texts, written, api_calls, cvars>>

\* lines 644-645 and 674-675: create_interleaved_docx builds the document
\* and saves it, or save raises
Assemble ==
  /\ pc = "assemble"
  /\ \E pictures_ok \in BOOLEAN :
       new_doc' = create_interleaved_docx(parsed_structure, pictures_ok)
  /\ \E save_ok \in BOOLEAN :
       IF save_ok THEN saved' = TRUE /\ ret' = "True" /\ pc' = "done"
       ELSE saved' = FALSE /\ ret' = ret /\ pc' = "raised"
  /\ UNCHANGED <<source_doc, api_key_ok, parsed_structure, tasks_to_translate,
                 units, work_queue, num_threads, idle_semaphore,
                 translated_texts, written, api_calls, cvars>>

Next ==
  \/ Open
  \/ Parse
  \/ Collect
  \/ Submit
  \/ StartUnit
  \/ \E i \in 1..Len(units) : TranslateChunk(i)
  \/ Gather
  \/ WriteBack
  \/ Assemble

Spec == Init /\ [][Next]_vars

\* The pipeline on the shorter documents, with every thread kept running
\* and every backend call returning: a step that can be taken is taken.
FairInit ==
  InitWith({ d \in SourceDocs : Len(d) <= MaxFairBlocks }, BOOLEAN)

FairSpec == FairInit /\ [][Next]_vars /\ WF_vars(Next)

\* The pipeline with a tokenizer and a backend that are functions of their
\* input: the tokenizer breaks at every candidate, the backend translates a
\* prompt without "b" and raises on one with "b".  Only the scheduling of
\* the workers (and what the document library does) is left open.
DetTokenize(text) ==
  [raised |-> FALSE,
   sentences |-> SentencesFrom(text, SentenceEndCandidates(text), 1)]

DetResponse(chunk) ==
  IF \E k \in 1..Len(chunk) : chunk[k] = "b"
  THEN [kind |-> "raise", text |-> <<>>]
  ELSE [kind |-> "ok", text |-> ZhText(strip(chunk))]

\* process_and_translate_block with these two functions
DetChunks(text_block) ==
  split_text_into_chunks(text_block, MAX_CHARS_PER_TRANSLATE_CHUNK,
                         DetTokenize(text_block))

DetOutput(chunk, key_ok) ==
  ChunkOutput(chunk, translate_text_qianwen(chunk, key_ok, DetResponse(chunk)))

\* StartUnit, the tokenizer answering as DetTokenize
DetStartUnit ==
  /\ work_queue # <<>>
  /\ StartUnit
  /\ units'[Head(work_queue)].chunks
       = DetChunks(tasks_to_translate[Head(work_queue)].text)

\* TranslateChunk(i), the backend answering as DetResponse
DetTranslateChunk(i) ==
  /\ units[i].state = "running"
  /\ TranslateChunk(i)
  /\ LET k == Len(units[i].translated_chunks) + 1 IN
       units'[i].translated_chunks[k]
         = DetOutput(units[i].chunks[k], api_key_ok)

DetNext ==
  \/ Open
  \/ Parse
  \/ Collect
  \/ Submit
  \/ DetStartUnit
  \/ \E i \in 1..Len(units) : DetTranslateChunk(i)
  \/ Gather
  \/ WriteBack
  \/ Assemble

DetSpec == Init /\ [][DetNext]_vars

\* the same pipeline on documents with more units than workers, run without
\* a valid API key (every chunk then fails before the backend is called)
PoolInit == InitWith(ManyUnitDocs, {FALSE})

PoolSpec == PoolInit /\ [][Next]_vars

(***************************************************************************)
(* The builder on its own: the document is opened and parsed.  The source  *)
(* is one table of any shape within the bounds: rows of cells with and     *)
(* without a grid span, and a tblGrid of any width.                        *)
(***************************************************************************)
SourceCells ==
  { SourceCell(<<SourceParagraph(<<TextRunOf(<<"a">>)>>, "Normal")>>,
               0, "absent"),
    SourceCell(<<P_Empty>>, 2, "restart"),
    SourceCell(<<>>, 3, "noval") }

SourceRows == UNION { [1..n -> SourceCells] : n \in 0..MaxRowCells }

SourceTables ==
  { SourceTable(rows, None, columns) :
      rows \in UNION { [1..n -> SourceRows] : n \in 0..MaxTableRows },
      columns \in 0..MaxNominalCols }

BuilderInit == InitWith({ <<t>> : t \in SourceTables }, {TRUE})

BuilderNext == Open \/ Parse

BuilderSpec == BuilderInit /\ [][BuilderNext]_vars

(***************************************************************************)
(* The assembler on its own: create_interleaved_docx is called on a block  *)
(* sequence of any shape within the bounds, with slots that are None,      *)
(* empty, blank or filled, and tables whose rows may be narrower or wider  *)
(* than max_cols.                                                          *)
(***************************************************************************)
ParsedText(text) ==
  [content_items |-> <<[type |-> "text", text |-> text]>>,
   text_to_translate |-> text,
   paragraph_style_name |-> "Normal",
   paragraph_alignment |-> None]

ParagraphBlock(text, translation) ==
  [type |-> "paragraph",
   content_items |-> <<[type |-> "text", text |-> text]>>,
   text_to_translate |-> text,
   paragraph_style_name |-> "Normal",
   paragraph_alignment |-> None,
   translation |-> translation]

CellData(paragraphs_data, translation, grid_span, v_merge) ==
  [paragraphs_data |-> paragraphs_data,
   full_cell_text_to_translate |->
     Concat([k \in 1..Len(paragraphs_data) |->
               paragraphs_data[k].text_to_translate]),
   translation |-> translation, grid_span |-> grid_span, v_merge |-> v_merge]

Translations == {NoValue, Some(<<>>), Some(<<" ">>), Some(<<"A">>)}

AssemblerCells ==
  { CellData(<<ParsedText(<<"a">>)>>, Some(<<"A">>), 1, None),
    CellData(<<ParsedText(<<"a">>), ParsedText(<<"b">>)>>, Some(<<" ">>), 2,
             "restart"),
    CellData(<<parse_single_paragraph_content(P_Empty)>>, NoValue, 1,
             "continue") }

AssemblerRows ==
  { [cells |-> cells] :
      cells \in UNION { [1..n -> AssemblerCells] : n \in 0..MaxPlacedCells } }

\* tables of two rows
AssemblerTables ==
  { [type |-> "table", rows |-> <<r1, r2>>, style_name |-> None,
     max_cols |-> n] :
      r1 \in AssemblerRows, r2 \in AssemblerRows, n \in 0..MaxCols }

ProcessedData ==
  { <<ParagraphBlock(<<"a">>, t1), ParagraphBlock(<<"b">>, t2)>> :
      t1 \in Translations, t2 \in Translations }
  \cup
  { pre \o <<t>> :
      pre \in { <<>>, <<ParagraphBlock(<<"a">>, Some(<<"A">>)),
                       ParagraphBlock(<<"b">>, Some(<<" ">>))>> },
      t \in AssemblerTables }

AssemblerInit ==
  /\ pc = "assemble"
  /\ source_doc = <<>>
  /\ api_key_ok = TRUE
  /\ parsed_structure \in ProcessedData
  /\ tasks_to_translate = <<>>
  /\ units = <<>>
  /\ work_queue = <<>>
  /\ num_threads = 0
  /\ idle_semaphore = 0
  /\ translated_texts = <<>>
  /\ written = 0
  /\ new_doc = <<>>
  /\ saved = FALSE
  /\ ret = None
  /\ api_calls = 0
  /\ ChunkerIdle

AssemblerSpec == AssemblerInit /\ [][Assemble]_vars

(***************************************************************************)
(* The chunker on its own: a call of split_text_into_chunks on any text    *)
(* and budget within the bounds.                                           *)
(***************************************************************************)
ChunkAlphabet == {"a", ".", " "}

ChunkInit ==
  /\ c_pc = "call"
  /\ long_text \in Strings(ChunkAlphabet, MaxTextLen)
  /\ max_chars \in 1..MaxBudget
  /\ tokenized = NotTokenized
  /\ chunks = <<>>
  /\ PipelineIdle

\* the call returns on line 79 without tokenizing
SplitShort ==
  /\ c_pc = "call"
  /\ Len(long_text) <= max_chars
  /\ chunks' = split_text_into_chunks(long_text, max_chars, NotTokenized)
  /\ c_pc' = "returned"
  /\ UNCHANGED <<long_text, max_chars, tokenized, pvars>>

\* the call tokenizes (lines 80-96)
SplitLong ==
  /\ c_pc = "call"
  /\ Len(long_text) > max_chars
  /\ \E tok \in sent_tokenize(long_text) :
       /\ tokenized' = tok
       /\ chunks' = split_text_into_chunks(long_text, max_chars, tok)
  /\ c_pc' = "returned"
  /\ UNCHANGED <<long_text, max_chars, pvars>>

ChunkNext == SplitShort \/ SplitLong

ChunkSpec == ChunkInit /\ [][ChunkNext]_vars

(***************************************************************************)
(* Claims about the translation stage.                                     *)
(***************************************************************************)
Tasks == 1..Len(tasks_to_translate)

WrittenBack == pc \in {"assemble", "done", "raised"} /\ tasks_to_translate # <<>>

Assembled ==
  /\ pc \in {"done", "raised"}
  /\ new_doc \in { create_interleaved_docx(parsed_structure, ok) :
                     ok \in BOOLEAN }

\* C1: after write-back the slot of the i-th collected unit holds the result
\* of the i-th future, which was computed from the i-th unit's own text; a
\* finished future never holds a result of another text.
C1_ResultInOwnSlot ==
  /\ \A i \in 1..Len(units) :
       units[i].state = "finished" =>
         units[i].result \in BlockResults(tasks_to_translate[i].text, api_key_ok)
  /\ \A i \in 1..Len(translated_texts) : translated_texts[i] = units[i].result
  /\ WrittenBack =>
       \A i \in Tasks :
         SlotOf(parsed_structure, tasks_to_translate[i].target)
           = Some(units[i].result)

\* three units of pairwise different texts were written back
C1_Witness ==
  /\ WrittenBack
  /\ Len(tasks_to_translate) >= 3
  /\ \E i, j, k \in Tasks :
       /\ tasks_to_translate[i].text # tasks_to_translate[j].text
       /\ tasks_to_translate[j].text # tasks_to_translate[k].text
       /\ tasks_to_translate[i].text # tasks_to_translate[k].text
       /\ SlotOf(parsed_structure, tasks_to_translate[i].target)
            # SlotOf(parsed_structure, tasks_to_translate[j].target)

\* C2: at every moment at most max_workers units are in flight, and the
\* units are started in collection order: the started units are a prefix of
\* the collected ones and the waiting ones queue in collection order.
C2_PoolCeiling ==
  /\ Cardinality(Running) <= max_workers
  /\ \A i, j \in 1..Len(units) :
       (i < j /\ units[j].state \in {"running", "finished"})
          => units[i].state \in {"running", "finished"}
  /\ \A a, b \in 1..Len(work_queue) : a < b => work_queue[a] < work_queue[b]

\* the pool is full and a unit waits
C2_Witness ==
  /\ Cardinality(Running) = max_workers
  /\ work_queue # <<>>
  /\ Len(units) > max_workers

\* the chunk was translated: the backend's text for it, stripped
NormalOutput(chunk) == ZhText(strip(chunk))

\* C3: a chunk for which the backend failed gets the failure placeholder and
\* only that chunk does; the unit goes on to its remaining chunks, its slot
\* receives the joined outputs with the marker in it, and the units without
\* a failed chunk receive their normal translated text.
C3_FailureIsolated ==
  /\ \A i \in 1..Len(units) :
       /\ units[i].state \in {"new", "queued", "running", "finished"}
       /\ Len(units[i].translated_chunks) <= Len(units[i].chunks)
       /\ \A k \in 1..Len(units[i].translated_chunks) :
            units[i].translated_chunks[k] =
              (IF k \in units[i].warned
               THEN FailurePlaceholder(units[i].chunks[k])
               ELSE NormalOutput(units[i].chunks[k]))
       /\ units[i].state = "finished" =>
            /\ Len(units[i].translated_chunks) = Len(units[i].chunks)
            /\ units[i].result = JoinChunks(units[i].translated_chunks)
       /\ ~api_key_ok =>
            units[i].warned = 1..Len(units[i].translated_chunks)
  /\ WrittenBack =>
       \A i \in Tasks :
         /\ units[i].state = "finished"
         /\ SlotOf(parsed_structure, tasks_to_translate[i].target)
              = Some(JoinChunks(units[i].translated_chunks))

\* one chunk of a two-chunk unit failed, its other chunk and two other
\* units were translated normally, and the run finished
C3_Witness ==
  /\ pc = "done"
  /\ Len(units) >= 3
  /\ \E i \in Tasks :
       /\ Len(units[i].chunks) = 2
       /\ units[i].warned = {1}
       /\ \A j \in Tasks \ {i} : units[j].warned = {}

\* C4: once the batch is dispatched, the pipeline reaches the state where
\* every collected unit's slot is written and the document is assembled.
C4_BatchCompletes ==
  (pc = "submit") ~>
     (/\ Assembled
      /\ \A i \in Tasks :
           SlotOf(parsed_structure, tasks_to_translate[i].target) # NoValue)

\* a batch with a failed chunk completed
C4_Witness ==
  /\ Assembled
  /\ Len(units) >= 2
  /\ \E i \in Tasks : units[i].warned # {}
  /\ \A i \in Tasks :
       SlotOf(parsed_structure, tasks_to_translate[i].target) # NoValue

Collected == pc \notin {"open", "parse", "collect", "open_failed", "empty", "idle"}

\* C5: collection makes exactly one unit per body paragraph with non-blank
\* text and one per table cell with non-blank cell text, carrying that
\* text, and nothing else; the units' targets are pairwise distinct.
C5_OneUnitPerSlot ==
  Collected =>
    /\ { tasks_to_translate[i].target : i \in Tasks }
         = { t \in AllSlots(parsed_structure) :
               ~IsBlank(SlotText(parsed_structure, t)) }
    /\ \A i, j \in Tasks :
         tasks_to_translate[i].target = tasks_to_translate[j].target => i = j
    /\ \A i \in Tasks :
         tasks_to_translate[i].text
           = SlotText(parsed_structure, tasks_to_translate[i].target)

\* a cell with text inside paragraphs, a blank cell and a blank body
\* paragraph: one unit for the first, none for the others
C5_Witness ==
  /\ Collected
  /\ \E t \in AllSlots(parsed_structure) :
       Len(t) = 3 /\ IsBlank(SlotText(parsed_structure, t))
  /\ \E t \in AllSlots(parsed_structure) :
       Len(t) = 1 /\ IsBlank(SlotText(parsed_structure, t))
  /\ \E i \in Tasks : Len(tasks_to_translate[i].target) = 3
  /\ \E i \in Tasks : Len(tasks_to_translate[i].target) = 1

\* the source document yields no translation unit
ZeroUnits == CollectTasks(parse_docx_for_translation(source_doc), 1) = <<>>

\* C6 as stated: a document that yields zero units (and opens, and whose
\* output saves) is assembled without a backend call and the run reports
\* success.
C6_ZeroUnitsAlwaysAssembled ==
  (ZeroUnits /\ pc \in {"empty", "done"}) =>
     (ret = "True" /\ saved /\ Assembled /\ api_calls = 0)

\* C6 (amended): a document whose block sequence is not empty and that
\* yields zero units is assembled from the block sequence with every slot
\* empty and without a backend call, and the run reports success when the
\* save succeeds; a document whose block sequence is empty makes the run
\* return False before collection, with nothing assembled.
C6_ZeroUnitsAssembledUnlessEmpty ==
  /\ (pc \in {"assemble", "done", "raised"} /\ tasks_to_translate = <<>>) =>
        /\ api_calls = 0
        /\ units = <<>> /\ work_queue = <<>> /\ num_threads = 0
        /\ \A t \in AllSlots(parsed_structure) :
             SlotOf(parsed_structure, t) = NoValue
        /\ pc # "assemble" => Assembled
        /\ pc = "done" => (ret = "True" /\ saved)
  /\ pc = "empty" =>
        (ret = "False" /\ ~saved /\ new_doc = <<>> /\ api_calls = 0)

\* a document of blocks without text was assembled and saved
C6_Witness ==
  /\ pc = "done"
  /\ tasks_to_translate = <<>>
  /\ Len(parsed_structure) >= 2
  /\ new_doc # <<>>
  /\ ret = "True"

RECURSIVE EraseSlots(_, _)
\* the structure with every translation slot in targets emptied
EraseSlots(structure, targets) ==
  IF targets = {} THEN structure
  ELSE LET t == CHOOSE x \in targets : TRUE
           erased ==
             IF Len(t) = 1
             THEN [structure EXCEPT ![t[1]].translation = NoValue]
             ELSE [structure EXCEPT
                     ![t[1]].rows[t[2]].cells[t[3]].translation = NoValue]
       IN  EraseSlots(erased, targets \ {t})

\* C7: the translation stage changes nothing in the block sequence but the
\* slots of the units: with those emptied the sequence is the one the
\* builder returned, and a slot without a unit is empty.
C7_OnlySlotsChange ==
  pc \notin {"open", "parse", "open_failed", "idle"} =>
    /\ EraseSlots(parsed_structure,
                  { tasks_to_translate[i].target : i \in Tasks })
         = parse_docx_for_translation(source_doc)
    /\ \A t \in AllSlots(parsed_structure) :
         t \notin { tasks_to_translate[i].target : i \in Tasks }
            => SlotOf(parsed_structure, t) = NoValue

\* the slots of a paragraph and of a cell were written, beside a cell
\* without a unit
C7_Witness ==
  /\ WrittenBack
  /\ \E i, j \in Tasks :
       /\ Len(tasks_to_translate[i].target) = 1
       /\ Len(tasks_to_translate[j].target) = 3
       /\ SlotOf(parsed_structure, tasks_to_translate[i].target) # NoValue
       /\ SlotOf(parsed_structure, tasks_to_translate[j].target) # NoValue
  /\ \E t \in AllSlots(parsed_structure) :
       SlotOf(parsed_structure, t) = NoValue

(***************************************************************************)
(* Claims about the chunker (checked under ChunkSpec).                     *)
(***************************************************************************)
Returned == c_pc = "returned"

\* C8: every chunk returned by split_text_into_chunks has length at most
\* max_chars, on the short path, the packing path (an oversized sentence
\* being hard-split) and the fallback path.
C8_ChunksWithinBudget ==
  Returned => \A k \in 1..Len(chunks) : Len(chunks[k]) <= max_chars

\* a sentence longer than max_chars was hard-split behind a packed chunk
C8_Witness ==
  /\ Returned
  /\ ~tokenized.raised
  /\ \E k \in 1..Len(tokenized.sentences) :
       Len(tokenized.sentences[k]) > max_chars
  /\ \E k \in 1..Len(tokenized.sentences) :
       Len(tokenized.sentences[k]) <= max_chars
  /\ Len(chunks) >= 3

\* C9 as stated: a text that fits the budget comes back as one chunk equal
\* to the stripped text, or as no chunk when it is blank.
C9_ShortTextStripped ==
  (Returned /\ Len(long_text) <= max_chars) =>
     chunks = (IF IsBlank(long_text) THEN <<>> ELSE <<strip(long_text)>>)

\* C9 (amended): a text that fits the budget comes back as one chunk equal
\* to the text itself, surrounding whitespace included, or as no chunk when
\* it is blank.
C9_ShortTextUnchanged ==
  (Returned /\ Len(long_text) <= max_chars) =>
     chunks = (IF IsBlank(long_text) THEN <<>> ELSE <<long_text>>)

\* a short text with surrounding whitespace came back as it was
C9_Witness ==
  /\ Returned
  /\ Len(long_text) <= max_chars
  /\ ~IsBlank(long_text)
  /\ strip(long_text) # long_text
  /\ chunks = <<long_text>>

\* C10: no chunk returned by split_text_into_chunks is blank, on every
\* return path.
C10_NoBlankChunk ==
  Returned => \A k \in 1..Len(chunks) : ~IsBlank(chunks[k])

\* C10 on the paths that filter: the short path and the packing path
C10_NoBlankChunkUnlessFallback ==
  (Returned /\ ~tokenized.raised) =>
     \A k \in 1..Len(chunks) : ~IsBlank(chunks[k])

\* a text without its whitespace
NoSpace(text) == SelectSeq(text, LAMBDA c : ~IsSpace(c))

RECURSIVE Words(_)
\* str.split(): the maximal runs of non-whitespace, in order
Words(text) ==
  LET t == lstrip(text) IN
  IF t = <<>> THEN <<>>
  ELSE LET ends == { i \in 1..Len(t) : i = Len(t) \/ IsSpace(t[i + 1]) }
           e == CHOOSE i \in ends : \A j \in ends : i <= j
       IN  <<SubSeq(t, 1, e)>> \o Words(SubSeq(t, e + 1, Len(t)))

Oversized(sentence) == Len(sentence) > max_chars

\* C11: for a text longer than max_chars that the tokenizer cut into
\* sentences, the chunks joined with single spaces hold the characters of
\* the sentences, each once and in order, whitespace aside (an oversized
\* sentence being cut into pieces); when no sentence is oversized the
\* joined chunks are the sentences joined with single spaces, word for
\* word, and no chunk is produced beyond the sentences.
C11_SentencesOnceInOrder ==
  (Returned /\ Len(long_text) > max_chars /\ ~tokenized.raised) =>
     /\ NoSpace(JoinWith(<<" ">>, chunks))
          = NoSpace(Concat(tokenized.sentences))
     /\ (\A k \in 1..Len(tokenized.sentences) :
           ~Oversized(tokenized.sentences[k])) =>
          /\ Words(JoinWith(<<" ">>, chunks))
               = Words(JoinWith(<<" ">>, tokenized.sentences))
          /\ Len(chunks) <= Len(tokenized.sentences)

\* three sentences came back as two chunks, the first holding two of them
C11_Witness ==
  /\ Returned
  /\ Len(long_text) > max_chars
  /\ ~tokenized.raised
  /\ Len(tokenized.sentences) = 3
  /\ \A k \in 1..3 : ~Oversized(tokenized.sentences[k])
  /\ Len(chunks) = 2
  /\ chunks[1] = tokenized.sentences[1] \o <<" ">> \o tokenized.sentences[2]
  /\ chunks[2] = tokenized.sentences[3]

(***************************************************************************)
(* Claims about the builder (checked under Spec).                          *)
(***************************************************************************)
Parsed == pc \notin {"open", "parse", "open_failed", "idle"}

\* a source paragraph none of whose runs has text or a picture that resolves
SourceParagraphIsEmpty(p_obj) ==
  \A k \in 1..Len(p_obj.runs) :
    p_obj.runs[k].text = <<>> /\ p_obj.runs[k].image # "ok"

\* the source blocks that are not such paragraphs, in source order
KeptSource ==
  SelectSeq(source_doc,
            LAMBDA blk : blk.tag = "w:tbl" \/ ~SourceParagraphIsEmpty(blk))

\* C12: the built block sequence holds no top-level paragraph without
\* content items and with blank text; the source paragraphs of that kind
\* are dropped, every other paragraph and every table is kept, and the
\* built length is the number of source blocks minus the number of the
\* dropped paragraphs.
C12_EmptyParagraphsDropped ==
  Parsed =>
    /\ \A b \in 1..Len(parsed_structure) :
         parsed_structure[b].type = "paragraph" =>
           \/ parsed_structure[b].content_items # <<>>
           \/ ~IsBlank(parsed_structure[b].text_to_translate)
    /\ Len(parsed_structure)
         = Len(source_doc)
             - Cardinality({ k \in 1..Len(source_doc) :
                              /\ source_doc[k].tag = "w:p"
                              /\ SourceParagraphIsEmpty(source_doc[k]) })
    /\ \A b \in 1..Len(parsed_structure) :
         (parsed_structure[b].type = "table") = (KeptSource[b].tag = "w:tbl")

\* a document with an empty paragraph between a kept paragraph and a table
\* was built into two blocks
C12_Witness ==
  /\ Parsed
  /\ Len(source_doc) = 3
  /\ source_doc[2].tag = "w:p" /\ SourceParagraphIsEmpty(source_doc[2])
  /\ source_doc[3].tag = "w:tbl"
  /\ Len(parsed_structure) = 2
  /\ parsed_structure[1].type = "paragraph"
  /\ parsed_structure[2].type = "table"

\* what the assembler emits for the b-th built block alone
EmittedFor(b, pictures_ok) ==
  create_interleaved_docx(<<parsed_structure[b]>>, pictures_ok)

\* C13: the built blocks are the kept source blocks in source order, and
\* the rebuilt document is, block after block in that order, what is
\* emitted for each block (its original, then its translated counterpart),
\* in every run, whatever order the units finished in.
C13_BlockOrderPreserved ==
  /\ Parsed =>
       /\ Len(parsed_structure) = Len(KeptSource)
       /\ \A b \in 1..Len(parsed_structure) :
            EraseSlots(parsed_structure, AllSlots(parsed_structure))[b]
              = parse_docx_for_translation(<<KeptSource[b]>>)[1]
  /\ pc \in {"done", "raised"} =>
       \E pictures_ok \in BOOLEAN :
         new_doc = Concat([b \in 1..Len(parsed_structure) |->
                             EmittedFor(b, pictures_ok)])

\* a paragraph, a dropped paragraph and a table were rebuilt: the
\* paragraph with its translation first, the table after them
C13_Witness ==
  /\ pc = "done"
  /\ Len(source_doc) = 3
  /\ Len(parsed_structure) = 2
  /\ parsed_structure[1].type = "paragraph"
  /\ HasTranslation(parsed_structure[1].translation)
  /\ parsed_structure[2].type = "table"
  /\ Len(new_doc) = 3
  /\ new_doc[1].role = "original" /\ new_doc[2].role = "translated"
  /\ new_doc[3].kind = "table"

\* the span a source cell declares, 1 without a w:gridSpan
SourceSpan(cell_obj) == IF cell_obj.gridSpan = 0 THEN 1 ELSE cell_obj.gridSpan

RECURSIVE SourceRowWidth(_)
\* the sum of the spans of a source row's cells
SourceRowWidth(row) ==
  IF row = <<>> THEN 0 ELSE SourceSpan(Head(row)) + SourceRowWidth(Tail(row))

\* the widest row of a source table, 0 for a table without cells
DerivedColumns(table_obj) ==
  LET widths == { SourceRowWidth(table_obj.rows[r]) :
                    r \in 1..Len(table_obj.rows) }
  IN  IF widths = {} THEN 0
      ELSE CHOOSE w \in widths : \A v \in widths : v <= w

\* C14 as stated: the stored column count of every table is the largest
\* sum of cell spans over its rows.
C14_ColumnsAlwaysDerived ==
  Parsed =>
    \A b \in 1..Len(parsed_structure) :
      parsed_structure[b].type = "table" =>
        parsed_structure[b].max_cols = DerivedColumns(KeptSource[b])

\* C14 (amended): the stored column count is the largest sum of cell spans
\* over the rows when some row has a cell, and the source's nominal column
\* count when no row has one; it is never smaller than the derived value.
C14_ColumnsDerivedUnlessNoCells ==
  Parsed =>
    \A b \in 1..Len(parsed_structure) :
      parsed_structure[b].type = "table" =>
        LET derived == DerivedColumns(KeptSource[b]) IN
          /\ parsed_structure[b].max_cols
               = (IF derived > 0 THEN derived ELSE KeptSource[b].columns)
          /\ parsed_structure[b].max_cols >= derived

\* a table whose widest row spans more columns than its nominal count got
\* the derived count
C14_Witness ==
  /\ Parsed
  /\ \E b \in 1..Len(parsed_structure) :
       /\ parsed_structure[b].type = "table"
       /\ Len(KeptSource[b].rows) = 2
       /\ DerivedColumns(KeptSource[b]) > KeptSource[b].columns
       /\ KeptSource[b].columns > 0
       /\ SourceRowWidth(KeptSource[b].rows[1])
            < SourceRowWidth(KeptSource[b].rows[2])
       /\ parsed_structure[b].max_cols = DerivedColumns(KeptSource[b])

(***************************************************************************)
(* Claims about the assembler (checked under AssemblerSpec).               *)
(***************************************************************************)
Built == pc \in {"done", "raised"}

\* a translation slot that holds a text with a character that is not
\* whitespace
NonBlank(slot) ==
  slot # NoValue /\ \E k \in 1..Len(slot[1]) : ~IsSpace(slot[1][k])

\* how many body elements a block is expected to give
EmittedCount(block) ==
  IF block.type = "paragraph"
  THEN IF NonBlank(block.translation) THEN 2 ELSE 1
  ELSE IF Len(block.rows) = 0 \/ block.max_cols = 0 THEN 0 ELSE 1

RECURSIVE Offset(_)
\* the number of body elements expected before those of the b-th block
Offset(b) ==
  IF b = 1 THEN 0 ELSE Offset(b - 1) + EmittedCount(parsed_structure[b - 1])

\* the emitted paragraph reproduces the content items of a parsed paragraph
IsOriginalOf(item, para) ==
  /\ item.kind = "paragraph"
  /\ item.role = "original"
  /\ Len(item.runs) = Len(para.content_items)
  /\ \A k \in 1..Len(item.runs) :
       para.content_items[k].type = "text" =>
         item.runs[k].text = para.content_items[k].text

\* the emitted paragraph is the one run of a slot's text in the fallback font
IsTranslationOf(item, slot) ==
  /\ item.kind = "paragraph"
  /\ item.role = "translated"
  /\ Len(item.runs) = 1
  /\ item.runs[1].text = slot[1]
  /\ item.runs[1].font = FALLBACK_CHINESE_FONT

\* C15: every paragraph block gives its original paragraph and, directly
\* after it, one translated paragraph exactly when its slot is non-blank,
\* the next block's elements following at once; every placed cell holds
\* its original paragraphs and after them one translated paragraph exactly
\* when the cell's slot is non-blank.
C15_BilingualInterleave ==
  Built =>
    /\ Len(new_doc) = Offset(Len(parsed_structure) + 1)
    /\ \A b \in 1..Len(parsed_structure) :
         LET block == parsed_structure[b]
             first == Offset(b) + 1
         IN  IF block.type = "paragraph"
             THEN /\ IsOriginalOf(new_doc[first], block)
                  /\ NonBlank(block.translation) =>
                       /\ IsTranslationOf(new_doc[first + 1], block.translation)
                       /\ new_doc[first + 1].style = new_doc[first].style
                       /\ new_doc[first + 1].alignment
                            = new_doc[first].alignment
             ELSE EmittedCount(block) = 1 =>
                  /\ new_doc[first].kind = "table"
                  /\ \A p \in 1..Len(new_doc[first].placed) :
                       LET pl == new_doc[first].placed[p]
                           cell == block.rows[pl.row + 1].cells[pl.source]
                           n == Len(cell.paragraphs_data)
                       IN  /\ Len(pl.paragraphs)
                                = n + (IF NonBlank(cell.translation)
                                       THEN 1 ELSE 0)
                           /\ \A k \in 1..n :
                                IsOriginalOf(pl.paragraphs[k],
                                             cell.paragraphs_data[k])
                           /\ NonBlank(cell.translation) =>
                                IsTranslationOf(pl.paragraphs[n + 1],
                                                cell.translation)

\* a translated paragraph, a paragraph with a blank slot and a table with a
\* translated cell and a cell with a blank slot were assembled
C15_Witness ==
  /\ Built
  /\ Len(parsed_structure) = 3
  /\ NonBlank(parsed_structure[1].translation)
  /\ parsed_structure[2].translation = Some(<<" ">>)
  /\ Len(new_doc) = 4
  /\ new_doc[2].role = "translated"
  /\ new_doc[3].role = "original"
  /\ new_doc[4].kind = "table"
  /\ \E p, q \in 1..Len(new_doc[4].placed) :
       LET cells == parsed_structure[3].rows[1].cells IN
         /\ new_doc[4].placed[p].row = 0 /\ new_doc[4].placed[q].row = 0
         /\ NonBlank(cells[new_doc[4].placed[p].source].translation)
         /\ cells[new_doc[4].placed[q].source].translation = Some(<<" ">>)
         /\ Len(new_doc[4].placed[p].paragraphs) = 2
         /\ Len(new_doc[4].placed[q].paragraphs) = 2

(***************************************************************************)
(* Claims about the whole run.                                             *)
(***************************************************************************)
\* what process_and_translate_block returns for a text when the tokenizer
\* and the backend are the functions of DetSpec
DetResult(text_block, key_ok) ==
  LET chs == DetChunks(text_block)
  IN  JoinChunks([k \in 1..Len(chs) |-> DetOutput(chs[k], key_ok)])

RECURSIVE FillSlots(_, _, _)
\* the structure after the slots of the tasks from the k-th on were filled,
\* one task after the other
FillSlots(structure, tasks, k) ==
  IF k > Len(tasks) THEN structure
  ELSE FillSlots([structure EXCEPT
                    ![tasks[k].target[1]] =
                      IF Len(tasks[k].target) = 1
                      THEN [@ EXCEPT !.translation =
                              Some(DetResult(tasks[k].text, api_key_ok))]
                      ELSE [@ EXCEPT
                              !.rows[tasks[k].target[2]]
                               .cells[tasks[k].target[3]].translation =
                              Some(DetResult(tasks[k].text, api_key_ok))]],
                 tasks, k + 1)

\* the block sequence a run without concurrency leaves for the source
ExpectedStructure ==
  LET built == parse_docx_for_translation(source_doc)
  IN  FillSlots(built, CollectTasks(built, 1), 1)

\* C16: with a tokenizer and a backend that are functions of their input,
\* every run on a source, whatever the interleaving of the workers and the
\* order they finish in, leaves the block sequence and the rebuilt document
\* that a run without concurrency leaves (the document up to what
\* add_picture does with the source's pictures).
C16_SameDocumentEverySchedule ==
  Built =>
    /\ parsed_structure = ExpectedStructure
    /\ \E pictures_ok \in BOOLEAN :
         new_doc = create_interleaved_docx(ExpectedStructure, pictures_ok)

\* a document of three units, one translated, one failed and one of both,
\* was rebuilt
C16_Witness ==
  /\ Built
  /\ api_key_ok
  /\ Len(tasks_to_translate) = 3
  /\ \E i, j \in Tasks :
       /\ units[i].warned = {}
       /\ units[j].warned # {}
       /\ Len(units[j].chunks) = 2
       /\ units[i].result # units[j].result
  /\ Len(new_doc) >= 3

\* the placed cells of the table emitted for the b-th block that belong to
\* a row (numbered from 1) and a source cell of that row
PlacedFor(b, r, c) ==
  LET placed == new_doc[Offset(b) + 1].placed
  IN  { p \in 1..Len(placed) :
          placed[p].row = r - 1 /\ placed[p].source = c }

\* the sum of the spans of the cells before the c-th of a row
SpansBefore(cells, c) == SumSpans(SubSeq(cells, 1, c - 1))

\* C17: in a row whose spans sum to at most the table's column count,
\* every source cell is placed, once, at the target column that is the sum
\* of the spans before it, and a cell of span s > 1 is merged across the s
\* columns that start there (a cell of span 1 is not merged).
C17_SpanFidelity ==
  Built =>
    \A b \in 1..Len(parsed_structure) :
      (parsed_structure[b].type = "table"
         /\ EmittedCount(parsed_structure[b]) = 1) =>
        \A r \in 1..Len(parsed_structure[b].rows) :
          LET cells == parsed_structure[b].rows[r].cells IN
            SumSpans(cells) <= parsed_structure[b].max_cols =>
              \A c \in 1..Len(cells) :
                /\ Cardinality(PlacedFor(b, r, c)) = 1
                /\ \A p \in PlacedFor(b, r, c) :
                     LET pl == new_doc[Offset(b) + 1].placed[p] IN
                       /\ pl.col = SpansBefore(cells, c)
                       /\ pl.merged_to = pl.col + cells[c].grid_span - 1

\* a row of spans 2, 1, 1 in a table of 4 columns: the first cell merged
\* across columns 0 and 1, the others at columns 2 and 3
C17_Witness ==
  /\ Built
  /\ Len(parsed_structure) = 1
  /\ parsed_structure[1].max_cols = 4
  /\ LET cells == parsed_structure[1].rows[1].cells
         placed == new_doc[1].placed
     IN  /\ Len(cells) = 3
         /\ cells[1].grid_span = 2
         /\ cells[2].grid_span = 1
         /\ cells[3].grid_span = 1
         /\ placed[1].col = 0 /\ placed[1].merged_to = 1
         /\ placed[2].col = 2 /\ placed[2].merged_to = 2
         /\ placed[3].col = 3 /\ placed[3].merged_to = 3

\* the vertical-merge markers of the table emitted for the b-th block that
\* belong to a row (numbered from 1) and a source cell of that row
MarkedFor(b, r, c) ==
  LET vmerge == new_doc[Offset(b) + 1].vmerge
  IN  { p \in 1..Len(vmerge) :
          vmerge[p].row = r - 1 /\ vmerge[p].source = c }

\* C18: a source cell before which the spans of its row already sum to the
\* table's column count or more gets nothing in the new table, neither
\* paragraphs nor a merge nor a marker, while every cell before that point
\* is placed, in this row and in the rows after it; the assembler goes on
\* to the end of the table and of the document.
C18_OverflowCellsSkipped ==
  Built =>
    \A b \in 1..Len(parsed_structure) :
      (parsed_structure[b].type = "table"
         /\ EmittedCount(parsed_structure[b]) = 1) =>
        /\ \A r \in 1..Len(parsed_structure[b].rows) :
             LET cells == parsed_structure[b].rows[r].cells IN
               \A c \in 1..Len(cells) :
                 IF SpansBefore(cells, c) >= parsed_structure[b].max_cols
                 THEN PlacedFor(b, r, c) = {} /\ MarkedFor(b, r, c) = {}
                 ELSE Cardinality(PlacedFor(b, r, c)) = 1
        /\ \A p \in 1..Len(new_doc[Offset(b) + 1].placed) :
             LET pl == new_doc[Offset(b) + 1].placed[p] IN
               pl.col < parsed_structure[b].max_cols
                 /\ pl.merged_to < parsed_structure[b].max_cols

\* a first row of spans 2, 2, 1 in a table of 4 columns lost its third
\* cell, and the cells of the second row were placed
C18_Witness ==
  /\ Built
  /\ Len(parsed_structure) = 1
  /\ parsed_structure[1].max_cols = 4
  /\ LET row1 == parsed_structure[1].rows[1].cells
         row2 == parsed_structure[1].rows[2].cells
     IN  /\ Len(row1) = 3
         /\ row1[1].grid_span = 2 /\ row1[2].grid_span = 2
         /\ row1[3].v_merge # None
         /\ PlacedFor(1, 1, 3) = {}
         /\ Len(row2) = 2
         /\ PlacedFor(1, 2, 1) # {} /\ PlacedFor(1, 2, 2) # {}

AllFinished ==
  /\ work_queue = <<>>
  /\ \A i \in 1..Len(units) : units[i].state = "finished"

NoSlotWritten ==
  \A t \in AllSlots(parsed_structure) : SlotOf(parsed_structure, t) = NoValue

\* C19: extraction, translation and assembly follow one another: no unit
\* exists and no backend call is made before the document is parsed; no
\* slot is written while a unit is queued or running; the document is not
\* built before every unit has finished and every unit's slot is written.
C19_StageOrdering ==
  /\ pc \in {"open", "parse", "open_failed", "empty"} =>
       units = <<>> /\ tasks_to_translate = <<>> /\ api_calls = 0
  /\ pc \in {"open", "parse", "collect", "submit", "gather"} =>
       NoSlotWritten
  /\ ~AllFinished => NoSlotWritten /\ written = 0
  /\ pc \in {"writeback", "assemble", "done", "raised"} => AllFinished
  /\ pc \in {"assemble", "done", "raised"} =>
       /\ written = Len(tasks_to_translate)
       /\ \A i \in Tasks :
            SlotOf(parsed_structure, tasks_to_translate[i].target) # NoValue
  /\ pc \notin {"done", "raised"} => new_doc = <<>> /\ ~saved

\* the assembler is about to start after three units called the backend
C19_Witness ==
  /\ pc = "assemble"
  /\ Len(tasks_to_translate) = 3
  /\ api_calls >= 3
  /\ AllFinished
  /\ written = 3

\* the backend answers a prompt with status OK and a text that is not empty
BackendSucceeds(response) == response.kind = "ok" /\ response.text # <<>>

\* C20: for every chunk a worker holds and every answer the backend can
\* give to it with status OK and a non-empty text, what enters
\* translated_chunks is that text (as translate_text_qianwen returns it,
\* stripped) and not the failure placeholder; and the result of a finished
\* unit is its chunk outputs joined with single spaces and trimmed.
C20_PlaceholderOnlyOnFailure ==
  \A i \in 1..Len(units) :
    /\ \A k \in 1..Len(units[i].chunks) :
         LET chunk == units[i].chunks[k] IN
           CallsBackend(chunk, api_key_ok) =>
             \A response \in BackendResponses(chunk) :
               BackendSucceeds(response) =>
                 LET out == ChunkOutput(chunk,
                              translate_text_qianwen(chunk, api_key_ok,
                                                     response))
                 IN  out = strip(response.text)
                       /\ out # FailurePlaceholder(chunk)
    /\ units[i].state = "finished" =>
         units[i].result
           = strip(JoinWith(<<" ">>, units[i].translated_chunks))

\* C21: the vertical-merge pass and the content pass agree on the column
\* of every source cell: a marker is set only for a source cell that the
\* content pass placed, at the column where it was placed, inside the
\* grid; a placed cell with a source marker gets exactly one marker,
\* "restart" when the source marker is restart and without a value
\* otherwise; a cell without a source marker gets none.
C21_PassesAgree ==
  Built =>
    \A b \in 1..Len(parsed_structure) :
      (parsed_structure[b].type = "table"
         /\ EmittedCount(parsed_structure[b]) = 1) =>
        LET tbl == new_doc[Offset(b) + 1] IN
          /\ \A m \in 1..Len(tbl.vmerge) :
               LET mk == tbl.vmerge[m] IN
                 /\ mk.col < tbl.cols /\ mk.row < tbl.rows
                 /\ \E p \in PlacedFor(b, mk.row + 1, mk.source) :
                      tbl.placed[p].col = mk.col
          /\ \A r \in 1..Len(parsed_structure[b].rows) :
               LET cells == parsed_structure[b].rows[r].cells IN
                 \A c \in 1..Len(cells) :
                   IF cells[c].v_merge = None \/ PlacedFor(b, r, c) = {}
                   THEN MarkedFor(b, r, c) = {}
                   ELSE /\ Cardinality(MarkedFor(b, r, c)) = 1
                        /\ \A m \in MarkedFor(b, r, c) :
                             tbl.vmerge[m].val
                               = (IF cells[c].v_merge = "restart"
                                  THEN "restart" ELSE None)

\* a row of a merged restart cell, a continue cell and a cell without a
\* marker: restart at column 0, a value-less marker at column 2, none at 3
C21_Witness ==
  /\ Built
  /\ Len(parsed_structure) = 1
  /\ parsed_structure[1].max_cols = 4
  /\ LET cells == parsed_structure[1].rows[1].cells
         marks == { m \in 1..Len(new_doc[1].vmerge) :
                      new_doc[1].vmerge[m].row = 0 }
     IN  /\ Len(cells) = 3
         /\ cells[1].grid_span = 2 /\ cells[1].v_merge = "restart"
         /\ cells[2].v_merge = "continue"
         /\ cells[3].v_merge = None
         /\ PlacedFor(1, 1, 3) # {}
         /\ { <<new_doc[1].vmerge[m].col, new_doc[1].vmerge[m].val>> :
               m \in marks } = { <<0, "restart">>, <<2, None>> }

=============================================================================
